---- MODULE Spec2Model ----
(***************************************************************************)
(* Toronto housing price predictor: the offline training run               *)
(* (src/train_models.py) and the online prediction handler                 *)
(* (src/api/predict.py), over one indicator table and one models           *)
(* directory.                                                              *)
(*                                                                         *)
(* Numbers of the indicator table are integers (index values in tenths,    *)
(* 1500 = 150.0); a missing value (JSON null, pandas None/NaN) is NULL.    *)
(***************************************************************************)
EXTENDS Integers, Sequences, FiniteSets, TLC

\* ------------------------------------------------------------------ bounds
\* The largest number of monthly rows of the indicator table.
MaxRows == 3

\* ------------------------------------------------------- program constants
HORIZONS == <<1, 2, 3, 6, 12, 24, 36>>

TARGET_COLUMN == "housing_price_index_value"

\* A missing value: JSON null, None in an object column, NaN in a float one.
NULL == 0 - 1

\* The columns of the toronto_housing table, in the order the store returns
\* them (select("*")).
Columns == <<"ref_date", "unemployment_rate", "housing_price_index_value", "monthly_cpi_value">>

\* ----------------------------------------------------------------- helpers
Range(s) == {s[i] : i \in 1..Len(s)}

HorizonSet == Range(HORIZONS)

\* The year-month key of the k-th month of the table, "2023-11" onwards, as
\* the store holds it.
MonthKey(k) == [y |-> 2023 + ((10 + k - 1) \div 12), m |-> ((10 + k - 1) % 12) + 1]

\* pd.to_datetime(ref_date + '-01'): the first day of the month, as a
\* timestamp; only its order and its month matter, so months since year 0.
to_datetime(key) == key.y * 12 + (key.m - 1)

\* ------------------------------------------------------------ the table
\* One stored row: the key and three nullable double precision columns.
StoredRow(k, u, v) ==
    [ref_date |-> MonthKey(k), unemployment_rate |-> u,
     housing_price_index_value |-> v, monthly_cpi_value |-> 140]

HpiValues == {NULL, 0, 1500}

\* Which months know their unemployment rate: all, none, or all but the
\* latest.
UnemploymentPatterns == {"known", "unknown", "latest_unknown"}

UnemploymentOf(pattern, k, n) ==
    IF pattern = "unknown" \/ (pattern = "latest_unknown" /\ k = n) THEN NULL ELSE 5

\* The months of the table of the 40-row scenario.
ScenarioRows == 40

\* The scenario table: every month holds every value, rows oldest first.
ScenarioTable == [i \in 1..ScenarioRows |-> StoredRow(i, 5, 1500 + i)]

\* Every table of n <= MaxRows consecutive months, in every row order.
RowOrders(n) == {p \in [1..n -> 1..n] : \A i, j \in 1..n : p[i] = p[j] => i = j}

Tables ==
    UNION {
        {[i \in 1..n |-> StoredRow(p[i], UnemploymentOf(u, p[i], n), v[i])] :
            p \in RowOrders(n), u \in UnemploymentPatterns, v \in [1..n -> HpiValues]}
        : n \in 0..MaxRows}

\* ------------------------------------------------------ pandas DataFrame
\* A DataFrame is [cols: the column labels in order, rows: the rows in index
\* order]. pd.DataFrame([]) has no columns at all.
DataFrame(data) == [cols |-> IF Len(data) = 0 THEN <<>> ELSE Columns, rows |-> data]

\* The dtype test of select_dtypes(include=[np.number]): a column built from
\* JSON numbers and nulls is float64 when some value is a number and object
\* when every value is None; strings and timestamps are never numeric.
IsNumericColumn(frame, col) ==
    /\ col # "ref_date"
    /\ \E i \in 1..Len(frame.rows) : frame.rows[i][col] # NULL

RECURSIVE InsertSorted(_, _)
InsertSorted(sorted, row) ==
    IF sorted = <<>> THEN <<row>>
    ELSE IF row.ref_date < Head(sorted).ref_date THEN <<row>> \o sorted
    ELSE <<Head(sorted)>> \o InsertSorted(Tail(sorted), row)

\* The rows left in the order the store returned them.
sort_values_skipped(rows) == rows

RECURSIVE sort_values(_)
\* df.sort_values('ref_date').reset_index(drop=True)
sort_values(rows) ==
    IF rows = <<>> THEN <<>>
    ELSE InsertSorted(sort_values(SubSeq(rows, 1, Len(rows) - 1)), rows[Len(rows)])

\* fetch_data_from_supabase, after the query: ref_date parsed, rows sorted.
ParseDates(rows) ==
    [i \in 1..Len(rows) |-> [rows[i] EXCEPT !.ref_date = to_datetime(rows[i].ref_date)]]

FetchedFrame(data) == [cols |-> DataFrame(data).cols, rows |-> sort_values(ParseDates(data))]

\* --------------------------------------------------- the dataset builder
\* f"target_h{horizon}"
target_name(horizon) ==
    CASE horizon = 1 -> "target_h1" [] horizon = 2 -> "target_h2"
      [] horizon = 3 -> "target_h3" [] horizon = 6 -> "target_h6"
      [] horizon = 12 -> "target_h12" [] horizon = 24 -> "target_h24"
      [] horizon = 36 -> "target_h36" [] OTHER -> "target_h"

\* col.startswith('target_'), over the column labels that occur
StartsWithTarget(col) == col \in {target_name(HORIZONS[i]) : i \in 1..Len(HORIZONS)} \cup {"target_h"}

\* The shift taken in the other direction, shift(horizon).
shift_backwards(frame, col, horizon) ==
    [i \in 1..Len(frame.rows) |->
        IF i - horizon >= 1 THEN frame.rows[i - horizon][col] ELSE NULL]

\* df_work[target_col].shift(-horizon): row i gets the value horizon rows
\* further down, the last rows get NaN.
shift(frame, col, horizon) ==
    [i \in 1..Len(frame.rows) |->
        IF i + horizon <= Len(frame.rows) THEN frame.rows[i + horizon][col] ELSE NULL]

\* df_work.dropna(subset=[target_name]): the positions of the rows kept, in
\* order.
dropna(shifted) ==
    LET F[i \in 0..Len(shifted)] ==
            IF i = 0 THEN <<>>
            ELSE IF shifted[i] # NULL THEN Append(F[i - 1], i) ELSE F[i - 1]
    IN  F[Len(shifted)]

\* The columns excluded from the features: ref_date and every target_* column.
exclude_cols(work_cols) ==
    {"ref_date"} \cup {c \in Range(work_cols) : StartsWithTarget(c)}

\* build_supervised_dataset(df, target_col, horizon) -> X, y, dates
build_supervised_dataset(frame, target_col, horizon) ==
    LET shifted == shift(frame, target_col, horizon)
        work_cols == Append(frame.cols, target_name(horizon))
        idx == dropna(shifted)
        feature_cols == SelectSeq(work_cols, LAMBDA c : c \notin exclude_cols(work_cols))
        numeric_features == SelectSeq(feature_cols, LAMBDA c : IsNumericColumn(frame, c))
    IN  [cols  |-> numeric_features,
         X     |-> [k \in 1..Len(idx) |-> [c \in Range(numeric_features) |-> frame.rows[idx[k]][c]]],
         y     |-> [k \in 1..Len(idx) |-> shifted[idx[k]]],
         dates |-> [k \in 1..Len(idx) |-> frame.rows[idx[k]].ref_date]]

\* The target column written into the caller's table instead of a copy.
df_after_build_in_place(frame, target_col, horizon) ==
    [cols |-> Append(frame.cols, target_name(horizon)), rows |-> frame.rows]

\* main()'s df after build_supervised_dataset(df, target_col, horizon) has
\* returned: the function works on df.copy() (line 92) and rebinds only its
\* own df_work, so the caller's table is the one passed in.
df_after_build(frame, target_col, horizon) == frame

\* round() in place of int().
split_index_rounded(n) == (n * 4 + 2) \div 5

\* int(len(X) * 0.8): the double 0.8 lies just above 4/5, so the product
\* never rounds below an exact multiple and truncation gives floor(4n/5).
split_index(n) == (n * 4) \div 5

\* ------------------------------------------------------- model artifacts
\* f"./models/xgboost_h{horizon}.pkl", relative to the models directory
model_path(horizon) == <<"xgboost_h", horizon, ".pkl">>

ModelFiles == {model_path(HORIZONS[i]) : i \in 1..Len(HORIZONS)}

NoFile == [horizon |-> 0, feature_schema |-> <<>>, n_train |-> 0, run |-> 0]

\* The fitted regressor as joblib.dump writes it: opaque, but it carries the
\* horizon it was fitted for and the feature names it was fitted on; run
\* tells the files of one training run from those of the next.
Artifact(horizon, X_cols, n_train) ==
    [horizon |-> horizon, feature_schema |-> X_cols, n_train |-> n_train, run |-> 1]

NoDataset == [horizon |-> 0, cols |-> <<>>, X |-> <<>>, y |-> <<>>, dates |-> <<>>,
              X_train |-> <<>>, y_train |-> <<>>, X_test |-> <<>>, y_test |-> <<>>,
              dates_test |-> <<>>]


\* ------------------------------------------------ the prediction service
\* The number of GET requests one serving process handles.
NumRequests == 2

Requests == 1..NumRequests

\* The raw horizon parameter of a request: the text after "horizon=" (a
\* request without the parameter is the request "1", the default).
HorizonParams == {"1", "2", "36", "5", "abc"}

\* The raw include_historical parameter.
HistoricalParams == {"True", "false"}

NotAnInt == 0 - 2

\* A parse that falls back to the default horizon on a bad value.
ParseHorizon_defaulting(raw) ==
    CASE raw = "1" -> 1 [] raw = "2" -> 2 [] raw = "36" -> 36 [] raw = "5" -> 5
      [] OTHER -> 1

\* int(params.get('horizon', [1])[0]); NotAnInt where int() raises ValueError
ParseHorizon(raw) ==
    CASE raw = "1" -> 1 [] raw = "2" -> 2 [] raw = "36" -> 36 [] raw = "5" -> 5
      [] OTHER -> NotAnInt

\* params.get('include_historical', ['false'])[0].lower() == 'true'
ParseHistorical(raw) ==
    LET lower == IF raw = "True" THEN "true" ELSE raw IN lower = "true"

\* Every horizon looked up under the first horizon's file name.
load_model_path_first(h) == <<"xgboost_h", HORIZONS[1], ".pkl">>

\* os.path.join(base_dir, f"models/xgboost_h{h}.pkl"), relative to the
\* models directory
load_model_path(h) == <<"xgboost_h", h, ".pkl">>

\* os.path.exists(model_path)
FileExists(files, path) == path \in DOMAIN files /\ files[path] # NoFile

\* The missing-model test left out.
ModelFound_always(model) == TRUE

\* `if not model`, negated: models.get(horizon) gave a regressor
ModelFound(model) == model # NoFile

\* `not MODELS`: the dict has no key
CacheEmpty(cache) == \A h \in DOMAIN cache : cache[h] = NoFile

\* The order of the store on ref_date (a year-month key).
KeyLess(a, b) == a.y < b.y \/ (a.y = b.y /\ a.m < b.m)

RECURSIVE InsertDesc(_, _)
InsertDesc(sorted, row) ==
    IF sorted = <<>> THEN <<row>>
    ELSE IF KeyLess(Head(sorted).ref_date, row.ref_date) THEN <<row>> \o sorted
    ELSE <<Head(sorted)>> \o InsertDesc(Tail(sorted), row)

RECURSIVE OrderDesc(_)
\* .order("ref_date", desc=True)
OrderDesc(rows) ==
    IF rows = <<>> THEN <<>>
    ELSE InsertDesc(OrderDesc(SubSeq(rows, 1, Len(rows) - 1)), rows[Len(rows)])

\* .limit(n)
Limit(rows, n) == SubSeq(rows, 1, IF Len(rows) < n THEN Len(rows) ELSE n)

Reverse(s) == [i \in 1..Len(s) |-> s[Len(s) + 1 - i]]

\* fetch_latest_data, the query: the most recent row, as a list
LatestData(table) == Limit(OrderDesc(table), 1)

\* The rows handed back in the order the store answered, newest first.
fetch_historical_data_newest_first(table, months) ==
    LET data == Limit(OrderDesc(table), months)
    IN  [i \in 1..Len(data) |->
            [date |-> data[i].ref_date, hpi |-> data[i].housing_price_index_value]]

\* fetch_historical_data(months): the last rows, oldest first
fetch_historical_data(table, months) ==
    LET data == Reverse(Limit(OrderDesc(table), months))
    IN  [i \in 1..Len(data) |->
            [date |-> data[i].ref_date, hpi |-> data[i].housing_price_index_value]]

\* do_GET, lines 96-98: the feature columns of the latest row
serving_features(frame) ==
    LET exclude == {"ref_date", "housing_price_index_value"}
        feature_cols == SelectSeq(frame.cols, LAMBDA c : c \notin exclude)
    IN  SelectSeq(feature_cols, LAMBDA c : IsNumericColumn(frame, c))

\* What the regressor may answer for one row (tenths of an index point).
Predictions == {1605, 1350}

\* model.predict raising ValueError instead of answering.
PredictRaises == 0 - 3

\* The change taken relative to the prediction.
pct_change_of_prediction(prediction, current_hpi) ==
    [num |-> (prediction - current_hpi) * 100, den |-> prediction]

\* ((prediction - current_hpi) / current_hpi) * 100 as an exact fraction;
\* den = 0 is the float division by zero (inf or nan, no exception).
pct_change(prediction, current_hpi) ==
    [num |-> (prediction - current_hpi) * 100, den |-> current_hpi]

\* The months of history do_GET asks for.
HistoryMonths == 12

\* The history attached whether or not it was asked for.
response_data_always_historical(horizon, frame, prediction, include_historical, table) ==
    [horizon_months |-> horizon,
     current_hpi |-> frame.rows[1].housing_price_index_value,
     predicted_hpi |-> prediction,
     percentage_change |-> pct_change(prediction, frame.rows[1].housing_price_index_value),
     ref_date |-> frame.rows[1].ref_date,
     historical |-> fetch_historical_data(table, HistoryMonths)]

\* The change taken from the oldest month of the history when there is one.
response_data_history_scored(horizon, frame, prediction, include_historical, table) ==
    LET history == fetch_historical_data(table, HistoryMonths)
        current_hpi == IF include_historical THEN history[1].hpi
                       ELSE frame.rows[1].housing_price_index_value
        base == [horizon_months |-> horizon,
                 current_hpi |-> current_hpi,
                 predicted_hpi |-> prediction,
                 percentage_change |-> pct_change(prediction, current_hpi),
                 ref_date |-> frame.rows[1].ref_date]
    IN  IF include_historical
        THEN [horizon_months |-> base.horizon_months,
              current_hpi |-> base.current_hpi,
              predicted_hpi |-> base.predicted_hpi,
              percentage_change |-> base.percentage_change,
              ref_date |-> base.ref_date,
              historical |-> history]
        ELSE base

\* do_GET, lines 104-120: response_data, with the history when requested
response_data(horizon, frame, prediction, include_historical, table) ==
    LET current_hpi == frame.rows[1].housing_price_index_value
        base == [horizon_months |-> horizon,
                 current_hpi |-> current_hpi,
                 predicted_hpi |-> prediction,
                 percentage_change |-> pct_change(prediction, current_hpi),
                 ref_date |-> frame.rows[1].ref_date]
    IN  IF include_historical
        THEN [horizon_months |-> base.horizon_months,
              current_hpi |-> base.current_hpi,
              predicted_hpi |-> base.predicted_hpi,
              percentage_change |-> base.percentage_change,
              ref_date |-> base.ref_date,
              historical |-> fetch_historical_data(table, HistoryMonths)]
        ELSE base

\* send_error_response(code, message): the status line and the body
ErrorResponse(code, message) == [status |-> code, body |-> [error |-> message]]

\* send_success_response(data)
SuccessResponse(data) == [status |-> 200, body |-> data]

\* A status line whose body never reached the client (wfile.write raised).
NoBody == [lost |-> TRUE]

NoScore == [model |-> NoFile, X_cols |-> <<>>]

IdleRequest ==
    [pc |-> "idle", horizon_param |-> "", historical_param |-> "false",
     horizon |-> 0, include_historical |-> FALSE, h |-> 0,
     calls |-> {}, loaded |-> {}, scored |-> NoScore, sent |-> <<>>]

VARIABLES
    store,        \* the toronto_housing table, rows in the order the store returns them
    tpc,          \* position of the training run main()
    df,           \* main()'s DataFrame after fetch_data_from_supabase
    hi,           \* index into HORIZONS of the loop of main()
    cur,          \* the dataset and split of the loop iteration just executed
    disk,         \* ./models: file name -> artifact, NoFile where there is none
    all_metrics,  \* main()'s all_metrics, one horizon per entry
    pred_files,   \* horizons with an ./outputs/predictions_h{h}.csv
    warnings,     \* horizons reported as "No data available"
    summary_files,\* ./outputs: the combined predictions and the metrics summary
    MODELS,       \* the module-level cache of predict.py: horizon -> artifact, NoFile = no key
    req           \* the GET requests of the serving process, one record per request

trainVars == <<store, tpc, df, hi, cur, disk, all_metrics, pred_files, warnings, summary_files>>

vars == <<trainVars, MODELS, req>>

InitRest ==
    /\ tpc = "start"
    /\ df = [cols |-> <<>>, rows |-> <<>>]
    /\ hi = 1
    /\ cur = NoDataset
    /\ disk = [f \in ModelFiles |-> NoFile]
    /\ all_metrics = <<>>
    /\ pred_files = {}
    /\ warnings = <<>>
    /\ summary_files = {}
    /\ MODELS = [h \in HorizonSet |-> NoFile]
    /\ req = [r \in Requests |-> IdleRequest]

InitTrain ==
    /\ store \in Tables \cup {ScenarioTable}
    /\ InitRest

\* main(), lines 181-201: fetch the table, check the target column, print
\* its statistics. An empty result has no ref_date column (KeyError); the
\* statistics of a target column that holds no number at all (object dtype)
\* may or may not raise in the formatting, so both outcomes are kept.
FetchData ==
    /\ tpc = "start"
    /\ LET frame == FetchedFrame(store) IN
        \/ /\ "ref_date" \notin Range(frame.cols)
           /\ tpc' = "crashed"
           /\ df' = df
        \/ /\ "ref_date" \in Range(frame.cols)
           /\ tpc' = IF TARGET_COLUMN \in Range(frame.cols) THEN "loop" ELSE "returned"
           /\ df' = frame
        \/ /\ "ref_date" \in Range(frame.cols)
           /\ TARGET_COLUMN \in Range(frame.cols)
           /\ ~IsNumericColumn(frame, TARGET_COLUMN)
           /\ tpc' = "crashed"
           /\ df' = frame
    /\ UNCHANGED <<store, hi, cur, disk, all_metrics, pred_files, warnings, summary_files, MODELS, req>>

\* main(), lines 216-223: the time-based 80/20 split of one dataset.
train_test_split(horizon, ds) ==
    LET n == Len(ds.X)
        split_idx == split_index(n)
    IN  [horizon |-> horizon, cols |-> ds.cols, X |-> ds.X, y |-> ds.y, dates |-> ds.dates,
         X_train |-> SubSeq(ds.X, 1, split_idx),
         y_train |-> SubSeq(ds.y, 1, split_idx),
         X_test |-> SubSeq(ds.X, split_idx + 1, n),
         y_test |-> SubSeq(ds.y, split_idx + 1, n),
         dates_test |-> SubSeq(ds.dates, split_idx + 1, n)]

\* The empty dataset reported and then raised as an error.
SkipEmptyHorizon_raising(horizon, ds) ==
    /\ warnings' = Append(warnings, horizon)
    /\ cur' = [NoDataset EXCEPT !.horizon = horizon, !.cols = ds.cols]
    /\ tpc' = "crashed"
    /\ UNCHANGED <<hi, disk, all_metrics, pred_files>>

\* main(), lines 212-214: an empty dataset is reported and the loop continues.
SkipEmptyHorizon(horizon, ds) ==
    /\ warnings' = Append(warnings, horizon)
    /\ cur' = [NoDataset EXCEPT !.horizon = horizon, !.cols = ds.cols]
    /\ hi' = hi + 1
    /\ UNCHANGED <<tpc, disk, all_metrics, pred_files>>

\* The model and the predictions saved, the metrics not appended.
TrainAndSave_unrecorded(horizon, split) ==
    /\ cur' = split
    /\ disk' = [disk EXCEPT ![model_path(horizon)] =
                    Artifact(horizon, split.cols, Len(split.X_train))]
    /\ pred_files' = pred_files \cup {horizon}
    /\ hi' = hi + 1
    /\ UNCHANGED <<tpc, warnings, all_metrics>>

\* main(), lines 225-250: fit, save the model, the predictions, the metrics.
TrainAndSave(horizon, split) ==
    /\ cur' = split
    /\ disk' = [disk EXCEPT ![model_path(horizon)] =
                    Artifact(horizon, split.cols, Len(split.X_train))]
    /\ pred_files' = pred_files \cup {horizon}
    /\ all_metrics' = Append(all_metrics, horizon)
    /\ hi' = hi + 1
    /\ UNCHANGED <<tpc, warnings>>

\* train_and_evaluate_model raising out of main(): nothing is saved.
TrainRaises(split) ==
    /\ cur' = split
    /\ tpc' = "crashed"
    /\ UNCHANGED <<hi, disk, all_metrics, pred_files, warnings>>

\* One iteration of the loop of main(), lines 208-250: build the dataset,
\* skip an empty one with a warning, else split 80/20, fit, save the model,
\* the predictions and the metrics. XGBRegressor.fit is outside the
\* repository: on an empty training set it may raise, which ends main().
TrainHorizon ==
    /\ tpc = "loop"
    /\ hi <= Len(HORIZONS)
    /\ LET horizon == HORIZONS[hi]
           ds == build_supervised_dataset(df, TARGET_COLUMN, horizon)
           split == train_test_split(horizon, ds)
       IN  \/ /\ Len(ds.X) = 0
              /\ SkipEmptyHorizon(horizon, ds)
           \/ /\ Len(ds.X) # 0
              /\ TrainAndSave(horizon, split)
           \/ /\ Len(ds.X) # 0
              /\ split.X_train = <<>>
              /\ TrainRaises(split)
    /\ df' = df_after_build(df, TARGET_COLUMN, HORIZONS[hi])
    /\ UNCHANGED <<store, summary_files, MODELS, req>>

\* main(), lines 252-276: the combined predictions and the metrics summary,
\* written when some horizon was trained.
FinishTraining ==
    /\ tpc = "loop"
    /\ hi > Len(HORIZONS)
    /\ tpc' = "done"
    /\ summary_files' = IF all_metrics # <<>>
                        THEN {"all_predictions.csv", "model_metrics.csv"} ELSE {}
    /\ UNCHANGED <<store, df, hi, cur, disk, all_metrics, pred_files, warnings, MODELS, req>>

NextTrain == FetchData \/ TrainHorizon \/ FinishTraining

SpecTrain == InitTrain /\ [][NextTrain]_vars

\* ----------------------------------------------------------- do_GET
\* The serving process reads the models directory a training run has left:
\* training and serving do not run at the same time.
TrainingOver == tpc \in {"done", "crashed", "returned"}

\* do_GET, lines 73-85: parse the query, validate the horizon, enter
\* load_models and test `if not MODELS`.
StartRequest(r, hp, ip) ==
    /\ TrainingOver
    /\ req[r].pc = "idle"
    /\ LET horizon == ParseHorizon(hp)
           rq == [req[r] EXCEPT !.horizon_param = hp, !.historical_param = ip]
       IN  req' = [req EXCEPT ![r] =
            IF horizon = NotAnInt
            THEN [rq EXCEPT !.pc = "done",
                            !.sent = <<ErrorResponse(400, "invalid literal for int()")>>]
            ELSE IF horizon \notin HorizonSet
            THEN [rq EXCEPT !.pc = "done", !.horizon = horizon,
                            !.include_historical = ParseHistorical(ip),
                            !.sent = <<ErrorResponse(400, "Invalid horizon")>>]
            ELSE [rq EXCEPT !.pc = IF CacheEmpty(MODELS) THEN "loading" ELSE "get",
                            !.horizon = horizon,
                            !.include_historical = ParseHistorical(ip),
                            !.h = IF CacheEmpty(MODELS) THEN 1 ELSE 0,
                            !.calls = {"load_models"}]]
    /\ UNCHANGED <<trainVars, MODELS>>

\* load_models, lines 18-21: one iteration of the loop over HORIZONS.
LoadModel(r) ==
    /\ req[r].pc = "loading"
    /\ LET h == HORIZONS[req[r].h]
           path == load_model_path(h)
           exists == FileExists(disk, path)
       IN  /\ MODELS' = IF exists THEN [MODELS EXCEPT ![h] = disk[path]] ELSE MODELS
           /\ req' = [req EXCEPT ![r] =
                [@ EXCEPT !.pc = IF req[r].h = Len(HORIZONS) THEN "get" ELSE "loading",
                          !.h = IF req[r].h = Len(HORIZONS) THEN 0 ELSE req[r].h + 1,
                          !.calls = IF exists THEN @ \cup {"joblib.load"} ELSE @,
                          !.loaded = IF exists THEN @ \cup {h} ELSE @]]
    /\ UNCHANGED trainVars

\* do_GET, lines 86-127, for one outcome of each call that leaves the
\* process: creds (the SUPABASE_* variables are set), store_up (the latest
\* row query answers), prediction (the regressor's answer, or PredictRaises
\* when it rejects the feature names with a ValueError), hist_up (the historical query
\* answers), write_ok (wfile.write of the success body succeeds).
do_GET_score(rq, cache, table, creds, store_up, prediction, hist_up, write_ok) ==
    LET model == cache[rq.horizon]
        data == LatestData(table)
        frame == DataFrame(data)
        numeric_features == serving_features(frame)
        current_hpi == frame.rows[1].housing_price_index_value
        fail(code, message, calls) ==
            [rq EXCEPT !.pc = "done", !.calls = @ \cup calls,
                       !.sent = <<ErrorResponse(code, message)>>]
    IN  IF ~ModelFound(model)
        THEN fail(404, "Model not found", {})
        ELSE IF ~creds
        THEN fail(400, "Missing Supabase credentials", {"fetch_latest_data"})
        ELSE IF ~store_up
        THEN fail(500, "store error", {"fetch_latest_data", "store_query"})
        ELSE IF data = <<>>
        THEN fail(400, "No data found", {"fetch_latest_data", "store_query"})
        ELSE LET scored == [rq EXCEPT !.scored = [model |-> model, X_cols |-> numeric_features]]
                 called == {"fetch_latest_data", "store_query", "predict"}
             IN
             IF prediction = PredictRaises
             THEN [scored EXCEPT !.pc = "done", !.calls = @ \cup called,
                                 !.sent = <<ErrorResponse(400, "feature_names mismatch")>>]
             ELSE IF current_hpi = NULL
             THEN [scored EXCEPT !.pc = "done", !.calls = @ \cup called,
                                 !.sent = <<ErrorResponse(500, "unsupported operand type")>>]
             ELSE IF rq.include_historical /\ ~hist_up
             THEN [scored EXCEPT !.pc = "done",
                                 !.calls = @ \cup called \cup {"fetch_historical_data"},
                                 !.sent = <<ErrorResponse(500, "store error")>>]
             ELSE LET body == response_data(rq.horizon, frame, prediction,
                                            rq.include_historical, table)
                      calls == called \cup
                               (IF rq.include_historical THEN {"fetch_historical_data"} ELSE {})
                  IN  IF write_ok
                      THEN [scored EXCEPT !.pc = "done", !.calls = @ \cup calls,
                                          !.sent = <<SuccessResponse(body)>>]
                      ELSE [scored EXCEPT !.pc = "done", !.calls = @ \cup calls,
                                          !.sent = <<[status |-> 200, body |-> NoBody],
                                                     ErrorResponse(500, "write error")>>]

\* What model.predict may do with the columns it is given: answer, or, when
\* they are not the names it was fitted on, raise ValueError.
PredictOutcomes(model, X_cols) ==
    Predictions \cup (IF model.feature_schema # X_cols THEN {PredictRaises} ELSE {})

\* The outcomes of a call that leaves the process: it succeeds or fails when
\* the request reaches it, and has no outcome when it does not.
CallOutcomes(reached) == IF reached THEN BOOLEAN ELSE {TRUE}

Score(r) ==
    /\ req[r].pc = "get"
    /\ LET model == MODELS[req[r].horizon]
           found == ModelFound(model)
           X_cols == serving_features(DataFrame(LatestData(store)))
       IN  \E creds \in CallOutcomes(found) :
           \E store_up \in CallOutcomes(found /\ creds) :
           \E prediction \in (IF found /\ creds /\ store_up
                              THEN PredictOutcomes(model, X_cols) ELSE {PredictRaises}) :
           \E hist_up \in CallOutcomes(req[r].include_historical
                                       /\ prediction # PredictRaises) :
           \E write_ok \in CallOutcomes(prediction # PredictRaises /\ hist_up) :
                req' = [req EXCEPT ![r] =
                    do_GET_score(req[r], MODELS, store, creds, store_up, prediction,
                                 hist_up, write_ok)]
    /\ UNCHANGED <<trainVars, MODELS>>

do_GET(r) ==
    \/ \E hp \in HorizonParams, ip \in HistoricalParams : StartRequest(r, hp, ip)
    \/ LoadModel(r)
    \/ Score(r)

\* The tables the serving process is checked on: the store answers newest
\* first, and the months before the latest one hold every value.
ServingTables ==
    {t \in Tables :
        /\ \A i \in 1..Len(t) : t[i].ref_date = MonthKey(Len(t) + 1 - i)
        /\ \A i \in 2..Len(t) : /\ t[i].housing_price_index_value = 1500
                                /\ t[i].unemployment_rate = 5}

\* A table with fewer months than the historical query asks for.
ShortHistoryRows == 5

ShortHistoryTable == [i \in 1..ShortHistoryRows |-> StoredRow(i, 5, 1500 + i)]

Init ==
    /\ store \in ServingTables \cup {ShortHistoryTable, ScenarioTable}
    /\ InitRest

Next == NextTrain \/ \E r \in Requests : do_GET(r)

Spec == Init /\ [][Next]_vars

\* The rows of the table are deleted in the store between two queries of the
\* serving process; the artifacts already written stay where they are.
ClearTable ==
    /\ TrainingOver
    /\ store # <<>>
    /\ store' = <<>>
    /\ UNCHANGED <<tpc, df, hi, cur, disk, all_metrics, pred_files, warnings,
                   summary_files, MODELS, req>>

\* The training runs that write ./models during the life of one serving process.
MaxRuns == 2

\* train_models.py is run again, on the same rows, while the service is up:
\* joblib.dump overwrites every artifact file of the run before.
RerunTraining ==
    /\ TrainingOver
    /\ store # <<>>
    /\ \E f \in ModelFiles : disk[f] # NoFile /\ disk[f].run < MaxRuns
    /\ disk' = [f \in ModelFiles |->
                    IF disk[f] = NoFile THEN NoFile ELSE [disk[f] EXCEPT !.run = @ + 1]]
    /\ UNCHANGED <<store, tpc, df, hi, cur, all_metrics, pred_files, warnings,
                   summary_files, MODELS, req>>

NextEnv == Next \/ ClearTable \/ RerunTraining

\* The serving process against a store that changes under it.
SpecEnv == Init /\ [][NextEnv]_vars

\* =================================================================== claims
Max(a, b) == IF a > b THEN a ELSE b

\* The rows of main()'s table and the horizon of the iteration just executed.
TableRows == Len(df.rows)
Built == cur.horizon # 0
TargetOf(i) == df.rows[i][TARGET_COLUMN]

\* The feature values of row i, as the dataset holds them.
FeaturesOf(i) == [c \in Range(cur.cols) |-> df.rows[i][c]]

\* C1 as stated: for every horizon h and every ordered table of n rows, null
\* targets included, the dataset has exactly max(0, n-h) examples, example i
\* has the features and date of row i and the target of row i+h.
C1_ExactlyNMinusH ==
    Built =>
        /\ Len(cur.X) = Max(0, TableRows - cur.horizon)
        /\ \A i \in 1..Len(cur.X) :
            /\ cur.dates[i] = df.rows[i].ref_date
            /\ cur.X[i] = FeaturesOf(i)
            /\ cur.y[i] = TargetOf(i + cur.horizon)

\* The rows that have a target h rows further down.
RowsWithTarget(h) == {i \in 1..TableRows : i + h <= TableRows /\ TargetOf(i + h) # NULL}

\* C1 amended: the examples are exactly the rows i with i+h <= n whose row
\* i+h holds a target value, in table order, each with the features and date
\* of its row and the target of row i+h; so max(0, n-h) examples, example i
\* from row i, when no target of the rows after the first h is null, and an
\* empty dataset without an error when h >= n.
C1_RowsWithTarget ==
    Built =>
        /\ Len(cur.X) = Cardinality(RowsWithTarget(cur.horizon))
        /\ Len(cur.y) = Len(cur.X) /\ Len(cur.dates) = Len(cur.X)
        /\ \A k \in 1..Len(cur.X) :
            \E i \in RowsWithTarget(cur.horizon) :
                /\ cur.dates[k] = df.rows[i].ref_date
                /\ cur.X[k] = FeaturesOf(i)
                /\ cur.y[k] = TargetOf(i + cur.horizon)
        /\ \A k \in 1..(Len(cur.X) - 1) : cur.dates[k] < cur.dates[k + 1]
        /\ (\A i \in (cur.horizon + 1)..TableRows : TargetOf(i) # NULL) =>
                /\ Len(cur.X) = Max(0, TableRows - cur.horizon)
                /\ \A i \in 1..Len(cur.X) :
                    /\ cur.dates[i] = df.rows[i].ref_date
                    /\ cur.y[i] = TargetOf(i + cur.horizon)
        /\ (cur.horizon >= TableRows) => (cur.X = <<>> /\ tpc # "crashed")

\* A table with a null target in the middle, and a dataset built from it
\* that is shorter than n-h.
C1_Witness ==
    /\ Built
    /\ cur.horizon = 1
    /\ TableRows = 3
    /\ TargetOf(2) = NULL /\ TargetOf(3) # NULL
    /\ Len(cur.X) = 1
    /\ cur.dates[1] = df.rows[2].ref_date

\* C2: the training set is the first floor(0.8 n) examples in source_date
\* order, the test set the remaining ceil(0.2 n); they are disjoint and cover
\* the dataset.
C2_ChronologicalSplit ==
    (Built /\ cur.X # <<>>) =>
        LET n == Len(cur.X)
            k == Len(cur.X_train)
            m == Len(cur.X_test)
        IN  /\ 5 * k <= 4 * n /\ 4 * n < 5 * (k + 1)
            /\ 5 * (m - 1) < n /\ n <= 5 * m
            /\ k + m = n
            /\ \A i \in 1..k : cur.X_train[i] = cur.X[i] /\ cur.y_train[i] = cur.y[i]
            /\ \A j \in 1..m : /\ cur.X_test[j] = cur.X[k + j]
                               /\ cur.y_test[j] = cur.y[k + j]
                               /\ cur.dates_test[j] = cur.dates[k + j]
            /\ \A i \in 1..(n - 1) : cur.dates[i] < cur.dates[i + 1]

\* 40 rows, horizon 3: 37 examples, 29 for training, 8 for the test.
C2_Witness ==
    /\ TableRows = 40
    /\ cur.horizon = 3
    /\ Len(cur.X) = 37
    /\ Len(cur.X_train) = 29
    /\ Len(cur.X_test) = 8

\* C3: whatever the row order of the store, no test example has a
\* source_date earlier than the source_date of a training example.
C3_NoTestBeforeTrain ==
    Built =>
        \A i \in 1..Len(cur.X_train) : \A j \in 1..Len(cur.dates_test) :
            ~(cur.dates_test[j] < cur.dates[i])

\* The store answered newest first, and the split has both parts.
C3_Witness ==
    /\ Built
    /\ Len(store) = 3
    /\ \A i \in 1..2 : KeyLess(store[i + 1].ref_date, store[i].ref_date)
    /\ cur.X_train # <<>>
    /\ cur.dates_test # <<>>

\* C7 as stated: the feature columns are exactly the numeric columns other
\* than ref_date and the target column; the target column is never a feature.
C7_TargetNotAFeature ==
    Built =>
        /\ Range(cur.cols) =
            {c \in Range(df.cols) : IsNumericColumn(df, c)} \ {"ref_date", TARGET_COLUMN}
        /\ TARGET_COLUMN \notin Range(cur.cols)

\* C8: a horizon whose dataset is empty is skipped with a warning: it gets no
\* artifact, no prediction file and no metrics entry, main() does not fail,
\* and every remaining horizon is processed.
C8_EmptyHorizonSkipped ==
    /\ \A i \in 1..Len(warnings) :
        /\ RowsWithTarget(warnings[i]) = {}
        /\ disk[model_path(warnings[i])] = NoFile
        /\ warnings[i] \notin pred_files
        /\ warnings[i] \notin Range(all_metrics)
    /\ \A i \in 1..(hi - 1) :
        (tpc \in {"loop", "done"} /\ RowsWithTarget(HORIZONS[i]) = {}) =>
            HORIZONS[i] \in Range(warnings)
    /\ (warnings # <<>>) => tpc \in {"loop", "done"}
    /\ (tpc = "done") => Range(warnings) \cup Range(all_metrics) = HorizonSet

\* A finished run that trained the first horizon and skipped later ones.
C8_Witness ==
    /\ tpc = "done"
    /\ all_metrics # <<>>
    /\ Len(warnings) >= 2
    /\ Len(warnings) + Len(all_metrics) = Len(HORIZONS)

\* The horizon texts the service supports.
SupportedTexts == {"1", "2", "3", "6", "12", "24", "36"}

Handled(r) == req[r].pc # "idle"
Done(r) == req[r].pc = "done"

IsErrorOnly(item, code) == item.status = code /\ DOMAIN item.body = {"error"}

\* C4: a request whose horizon is not a supported one, a non-integer
\* included, is answered 400 with an error body, and load_models is not
\* called, no artifact is read and the store is not queried for it.
C4_BadHorizonIs400 ==
    \A r \in Requests :
        (Handled(r) /\ req[r].horizon_param \notin SupportedTexts) =>
            /\ Done(r)
            /\ Len(req[r].sent) = 1
            /\ IsErrorOnly(req[r].sent[1], 400)
            /\ req[r].calls = {}

\* One request with an unsupported number and one with a non-integer, both
\* answered.
C4_Witness ==
    \E r1, r2 \in Requests :
        /\ Done(r1) /\ req[r1].horizon_param = "5"
        /\ Done(r2) /\ req[r2].horizon_param = "abc"

\* C5: a request for a supported horizon whose artifact file is absent is
\* answered 404 with an error body, never 200, and the store is not queried.
C5_MissingArtifactIs404 ==
    \A r \in Requests :
        (Done(r) /\ req[r].horizon_param \in SupportedTexts
                 /\ disk[model_path(req[r].horizon)] = NoFile) =>
            /\ Len(req[r].sent) = 1
            /\ IsErrorOnly(req[r].sent[1], 404)
            /\ req[r].calls \subseteq {"load_models", "joblib.load"}
            /\ req[r].scored = NoScore

\* A request for horizon 2, which has no file, answered 404 by a process
\* whose cache holds the model of horizon 1.
C5_Witness ==
    \E r \in Requests :
        /\ Done(r)
        /\ req[r].horizon = 2
        /\ disk[model_path(2)] = NoFile
        /\ MODELS[1] # NoFile
        /\ req[r].sent[1].status = 404

\* C6 as stated: the ordered feature columns do_GET passes to model.predict
\* are the ordered feature columns the model was fitted on.
C6_ScoredOnTrainingSchema ==
    \A r \in Requests :
        (req[r].scored # NoScore) =>
            req[r].scored.X_cols = req[r].scored.model.feature_schema

\* The bodies a request's handler wrote.
IsSuccess(item) == item.status = 200 /\ item.body # NoBody

\* C9: in every 200 response with a non-zero current_hpi,
\* predicted_hpi = current_hpi * (1 + percentage_change / 100).
C9_PercentageChange ==
    \A r \in Requests : \A k \in 1..Len(req[r].sent) :
        LET item == req[r].sent[k] IN
        (IsSuccess(item) /\ item.body.current_hpi # 0) =>
            LET pct == item.body.percentage_change IN
            /\ pct.den # 0
            /\ item.body.predicted_hpi * (100 * pct.den) =
                    item.body.current_hpi * (100 * pct.den + pct.num)

\* current 150.0 and predicted 160.5: a change of 7.0 percent.
C9_Witness ==
    \E r \in Requests :
        /\ Done(r)
        /\ IsSuccess(req[r].sent[1])
        /\ req[r].sent[1].body.current_hpi = 1500
        /\ req[r].sent[1].body.predicted_hpi = 1605
        /\ req[r].sent[1].body.percentage_change.num =
                7 * req[r].sent[1].body.percentage_change.den

SuccessFields == {"horizon_months", "current_hpi", "predicted_hpi", "percentage_change", "ref_date"}

NoRowsAnswered(r) ==
    /\ Done(r)
    /\ "store_query" \in req[r].calls
    /\ "error" \in DOMAIN req[r].sent[1].body
    /\ req[r].sent[1].body.error = "No data found"

\* C11: a request whose latest-row query returns no rows is answered with a
\* not-found status, which is neither the status of a bad horizon (400) nor
\* a 200.
C11_EmptyTableIsNotFound ==
    \A r \in Requests :
        NoRowsAnswered(r) => /\ Len(req[r].sent) = 1
                             /\ req[r].sent[1].status \notin {200, 400}

Min(a, b) == IF a < b THEN a ELSE b

\* The rows of the table that are more recent than the month d.
NewerRows(d) == {j \in 1..Len(store) : KeyLess(d, store[j].ref_date)}

\* C12: a response with the history carries min(12, k) entries for a table
\* of k rows, each one of the 12 most recent rows with its index value, in
\* ascending order of ref_date; a request without include_historical gets
\* no historical field and issues no historical query.
C12_HistoricalWindow ==
    \A r \in Requests :
        Done(r) =>
            /\ ~req[r].include_historical =>
                    /\ "fetch_historical_data" \notin req[r].calls
                    /\ \A i \in 1..Len(req[r].sent) :
                            "historical" \notin DOMAIN req[r].sent[i].body
            /\ (req[r].include_historical /\ IsSuccess(req[r].sent[1])) =>
                    /\ "historical" \in DOMAIN req[r].sent[1].body
                    /\ LET hist == req[r].sent[1].body.historical
                       IN  /\ Len(hist) = Min(12, Len(store))
                           /\ \A i \in 1..(Len(hist) - 1) :
                                    KeyLess(hist[i].date, hist[i + 1].date)
                           /\ \A i \in 1..Len(hist) :
                                    /\ Cardinality(NewerRows(hist[i].date)) < 12
                                    /\ \E j \in 1..Len(store) :
                                            /\ store[j].ref_date = hist[i].date
                                            /\ store[j].housing_price_index_value = hist[i].hpi

\* A table of more than 12 months answered with the 12 latest, and a
\* request on the same table answered without the history.
C12_Witness ==
    /\ Len(store) > 12
    /\ \E r \in Requests :
            /\ Done(r) /\ req[r].include_historical /\ IsSuccess(req[r].sent[1])
            /\ Len(req[r].sent[1].body.historical) = 12
            /\ req[r].sent[1].body.historical[12].date = req[r].sent[1].body.ref_date
    /\ \E r \in Requests :
            /\ Done(r) /\ ~req[r].include_historical /\ IsSuccess(req[r].sent[1])

\* C13: the file name the training run saves horizon h under is the name
\* load_models reads for h, two horizons never share a file, every cached
\* entry is the artifact saved for its key, and a request is scored with
\* the artifact the training run saved for the request's own horizon.
C13_SavedIsLoaded ==
    /\ \A h \in HorizonSet : model_path(h) = load_model_path(h)
    /\ \A h1, h2 \in HorizonSet : h1 # h2 => model_path(h1) # model_path(h2)
    /\ \A h \in HorizonSet :
            MODELS[h] # NoFile => /\ MODELS[h] = disk[model_path(h)]
                                  /\ MODELS[h].horizon = h
    /\ \A r \in Requests :
            req[r].scored # NoScore =>
                /\ req[r].scored.model.horizon = req[r].horizon
                /\ req[r].scored.model = disk[model_path(req[r].horizon)]

\* A request for a horizon other than the first is answered 200 from its
\* own artifact while the artifacts of other horizons are cached too.
C13_Witness ==
    \E r \in Requests :
        /\ Done(r) /\ IsSuccess(req[r].sent[1])
        /\ req[r].horizon # HORIZONS[1]
        /\ req[r].scored.model = disk[model_path(req[r].horizon)]
        /\ req[r].scored.model.horizon = req[r].horizon
        /\ \E h \in HorizonSet \ {req[r].horizon} : MODELS[h] # NoFile

\* C14: once MODELS holds an entry for a horizon, no step replaces or removes
\* that entry and no request reads the horizon's file again, whatever
\* happens to the file on disk.
C14_CachedEntryKept ==
    [][\A h \in HorizonSet :
            MODELS[h] # NoFile =>
                /\ MODELS'[h] = MODELS[h]
                /\ \A r \in Requests : h \in req'[r].loaded => h \in req[r].loaded]_vars

\* The request ended on a failed call to the indicator store: the
\* credentials were missing or a query did not answer.
StoreCallFailed(r) ==
    /\ Done(r)
    /\ "fetch_latest_data" \in req[r].calls
    /\ "error" \in DOMAIN req[r].sent[1].body
    /\ req[r].sent[1].body.error \in {"Missing Supabase credentials", "store error"}

\* C15: a request that ends on a failed indicator-store call is answered
\* with one response of status 500, never 400 or 404.
C15_StoreFailureIs500 ==
    \A r \in Requests :
        StoreCallFailed(r) => /\ Len(req[r].sent) = 1
                              /\ IsErrorOnly(req[r].sent[1], 500)

\* C16: a request scored on a latest row whose index value is zero is
\* answered with an error; no 200 body carries a percentage_change taken
\* over a zero current value (infinite or NaN).
C16_ZeroIndexIsAnError ==
    \A r \in Requests :
        Done(r) =>
            /\ (req[r].scored # NoScore
                    /\ LatestData(store)[1].housing_price_index_value = 0)
                  => req[r].sent[1].status # 200
            /\ \A i \in 1..Len(req[r].sent) :
                    IsSuccess(req[r].sent[i]) =>
                        req[r].sent[i].body.percentage_change.den # 0

\* The requests that have read the artifact file of horizon h into MODELS.
Loaders(h) == {r \in Requests : h \in req[r].loaded}

\* C17: whatever the interleaving of the requests, the artifact file of a
\* horizon is read into MODELS by at most one request of the process.
C17_PopulatedAtMostOnce ==
    \A h \in HorizonSet : Cardinality(Loaders(h)) <= 1

\* Two answered requests for the same horizon, the first with the history
\* and the second without.
SameRequestBothWays(r1, r2) ==
    /\ Done(r1) /\ Done(r2)
    /\ req[r1].horizon = req[r2].horizon
    /\ req[r1].include_historical /\ ~req[r2].include_historical
    /\ IsSuccess(req[r1].sent[1]) /\ IsSuccess(req[r2].sent[1])

\* C18: with the store and the artifacts fixed, a request with the history
\* and the same request without it present the same model and the same
\* feature columns to the regressor, and their bodies agree on
\* horizon_months, current_hpi and ref_date; where the regressor gave both
\* the same predicted_hpi they agree on percentage_change too.
C18_HistoryDoesNotScore ==
    \A r1, r2 \in Requests :
        SameRequestBothWays(r1, r2) =>
            LET with == req[r1].sent[1].body
                without == req[r2].sent[1].body
            IN  /\ req[r1].scored = req[r2].scored
                /\ with.horizon_months = without.horizon_months
                /\ with.current_hpi = without.current_hpi
                /\ with.ref_date = without.ref_date
                /\ with.predicted_hpi = without.predicted_hpi
                        => with.percentage_change = without.percentage_change
                /\ DOMAIN with = DOMAIN without \cup {"historical"}

\* Both forms of one request answered 200 with the same prediction, on a
\* table whose history has more than the latest month.
C18_Witness ==
    \E r1, r2 \in Requests :
        /\ SameRequestBothWays(r1, r2)
        /\ Len(store) > 1
        /\ Len(req[r1].sent[1].body.historical) > 1
        /\ req[r1].sent[1].body.predicted_hpi = req[r2].sent[1].body.predicted_hpi
        /\ req[r1].sent[1].body.percentage_change = req[r2].sent[1].body.percentage_change

\* C19: whatever the interleaving of the requests, a request for a supported
\* horizon whose artifact file is on disk is not answered 404.
C19_ExistingArtifactNever404 ==
    \A r \in Requests :
        (Done(r) /\ req[r].horizon \in HorizonSet
                 /\ FileExists(disk, load_model_path(req[r].horizon)))
            => \A i \in 1..Len(req[r].sent) : req[r].sent[i].status # 404

\* C20: a horizon whose dataset has at least one example hands
\* train_and_evaluate_model a non-empty training set and a non-empty test
\* set.
C20_BothPartsNonEmpty ==
    (Built /\ Len(cur.X) >= 1) => /\ cur.X_train # <<>>
                                   /\ cur.X_test # <<>>

\* The horizons the training run has written an artifact for.
Written == {h \in HorizonSet : disk[model_path(h)] # NoFile}

\* The first k horizons of HORIZONS, as a list.
Prefix(k) == SubSeq(HORIZONS, 1, k)

\* C21: at every point of a training run the horizons with an artifact are
\* the first k of HORIZONS for some k, no horizon after a skipped one has an
\* artifact, and the metrics list is those k horizons in ascending order.
C21_WrittenIsAPrefix ==
    /\ \E k \in 0..Len(HORIZONS) :
            /\ Written = Range(Prefix(k))
            /\ all_metrics = Prefix(k)
    /\ \A i, j \in 1..Len(HORIZONS) :
            (i < j /\ HORIZONS[i] \in Range(warnings)) => HORIZONS[j] \notin Written

\* A finished run on a table with a month without index value that wrote
\* some horizons and skipped the rest.
C21_Witness ==
    /\ tpc = "done"
    /\ \E i \in 1..TableRows : TargetOf(i) = NULL
    /\ Cardinality(Written) >= 2
    /\ warnings # <<>>
    /\ Len(all_metrics) = Cardinality(Written)

\* The feature columns of the table as fetched: its numeric columns other
\* than ref_date, in table order.
FetchedFeatures ==
    SelectSeq(FetchedFrame(store).cols,
              LAMBDA c : c # "ref_date" /\ IsNumericColumn(FetchedFrame(store), c))

\* C22: once fetched, main()'s table stays the table as fetched through
\* every call of build_supervised_dataset (no column added, no row removed);
\* the dataset of every horizon and every artifact written carry the same
\* ordered feature columns, those of the fetched table, none of them a
\* target_h column.
C22_TableUnchanged ==
    (tpc # "start" /\ df.cols # <<>>) =>
        /\ df = FetchedFrame(store)
        /\ \A c \in Range(df.cols) : ~StartsWithTarget(c)
        /\ Built => /\ cur.cols = FetchedFeatures
                     /\ \A c \in Range(cur.cols) : ~StartsWithTarget(c)
        /\ \A h \in Written : disk[model_path(h)].feature_schema = FetchedFeatures

\* A finished run that built every horizon, wrote at least two of them
\* from the same columns and skipped another.
C22_Witness ==
    /\ tpc = "done"
    /\ df = FetchedFrame(store)
    /\ Cardinality(Written) >= 2
    /\ \A h1, h2 \in Written :
            disk[model_path(h1)].feature_schema = disk[model_path(h2)].feature_schema
    /\ warnings # <<>>
    /\ cur.horizon = HORIZONS[Len(HORIZONS)]

\* C23: a handled request has emitted exactly one response, a status line
\* followed by its body; in particular nothing follows a 200 status line.
C23_ExactlyOneResponse ==
    \A r \in Requests :
        Done(r) => /\ Len(req[r].sent) = 1
                   /\ req[r].sent[1].body # NoBody
                   /\ \A i, j \in 1..Len(req[r].sent) :
                        (i < j /\ req[r].sent[i].status = 200)
                            => req[r].sent[j].status \notin {400, 404, 500}

====
